---- MODULE Spec2Model ----
(***************************************************************************)
(* Model of in-toto-rs: src/runlib.rs (record_artifacts, run_command,      *)
(* in_toto_run) and src/models/link/byproducts.rs (ByProducts).            *)
(*                                                                         *)
(* Three specifications share the module:                                  *)
(*   SpecBP   a ByProducts value driven through its builder setters and    *)
(*            then serialized and deserialized;                            *)
(*   SpecRec  one standalone call of record_artifacts over a sequence of   *)
(*            roots, one action per iteration of its walk loop;            *)
(*   Spec     one call of in_toto_run, whose material and product stages   *)
(*            run the same walk loop and whose command stage runs          *)
(*            run_command.                                                 *)
(***************************************************************************)
EXTENDS Integers, Sequences, FiniteSets, TLC

\* ---------------------------------------------------------------- bounds
\* return_value and exit codes range over -MaxRet..MaxRet
MaxRet == 1
\* record_artifacts is called with at most MaxRoots roots
MaxRoots == 2
\* set_other_fields is called with a map of at most MaxBulk entries
MaxBulk == 2

VARIABLES
    \* ---- ByProducts (byproducts.rs)
    bp,         \* the ByProducts value being built
    prev,       \* the value before the last builder call
    last,       \* the last builder call: its name and arguments
    lastSet,    \* per fixed field, the argument of the last call of its setter
    bphase,     \* "building" | "serialized" | "deserialized"
    wire,       \* the serialized object: a sequence of <<key, value>> members
    decoded,    \* the result of deserializing wire
    \* ---- the file system and the walk loop of record_artifacts (runlib.rs)
    fault,      \* which entry of the tree is faulty in this run
    content,    \* content of each regular file
    rphase,     \* "idle" | "walking" | "returned"
    recRoots,   \* the paths argument
    rootIdx,    \* index of the root being walked
    rootOpen,   \* whether WalkDir for the current root has yielded its root
    stack,      \* WalkDir's stack of directory listings still to yield
    artifacts,  \* the local BTreeMap of record_artifacts
    recResult,  \* what record_artifacts returned
    log,        \* every insert made so far by this call
    \* ---- in_toto_run (runlib.rs)
    pc,         \* "off" | "materials" | "command" | "products" | "assemble" | "done"
    name,       \* the step name
    materials,  \* result of stage 1
    cmd,        \* what the command stage did (argv, the child's output)
    byproducts, \* result of stage 2
    products,   \* result of stage 3
    stages,     \* the stages started so far, in order
    result      \* what in_toto_run returned

bpVars  == <<bp, prev, last, lastSet, bphase, wire, decoded>>
fsVars  == <<fault, content>>
recVars == <<rphase, recRoots, rootIdx, rootOpen, stack, artifacts, recResult, log>>
runVars == <<pc, name, materials, cmd, byproducts, products, stages, result>>
vars    == <<bpVars, fsVars, recVars, runVars>>

\* A map with no entries (BTreeMap::new()).
EmptyMap == [k \in {} |-> {}]

\* BTreeMap::insert: adds the key or overwrites its value.
MapInsert(m, k, v) == [x \in DOMAIN m \cup {k} |-> IF x = k THEN v ELSE m[x]]

NoResult == [tag |-> "None"]
Ok(v)    == [tag |-> "Ok", val |-> v]
Err(e)   == [tag |-> "Err", err |-> e]
Panic    == [tag |-> "Panic"]

(***************************************************************************)
(*                    ByProducts  (models/link/byproducts.rs)              *)
(***************************************************************************)
RetVals == (0 - MaxRet)..MaxRet
StrVals == {"", "hello"}
\* extension keys a caller may use; two of them are names of fixed fields
ExtKeys == {"key1", "key2", "return-value", "stdout"}
ExtVals == {"value1", "value2"}
\* BTreeMap<String, String> iterates in key order
KeyOrder == <<"key1", "key2", "return-value", "stderr", "stdout">>
\* the serialized names of the fixed fields
FixedNames == {"return-value", "stderr", "stdout"}

ExtMaps ==
    UNION {[d -> ExtVals] : d \in {x \in SUBSET ExtKeys : Cardinality(x) <= MaxBulk}}

New ==
    [return_value |-> 0, stderr |-> "", stdout |-> "", other_fields |-> EmptyMap]

SetReturnValue(self, v) == [self EXCEPT !.return_value = v]

SetStderr(self, s) == [self EXCEPT !.stderr = s]

SetStdout(self, s) == [self EXCEPT !.stdout = s]

\* a variant that extends the map instead of replacing it (BTreeMap::extend)
MergeOtherFields(self, m) ==
    [self EXCEPT !.other_fields =
        [k \in DOMAIN self.other_fields \cup DOMAIN m |->
            IF k \in DOMAIN m THEN m[k] ELSE self.other_fields[k]]]

SetOtherFields(self, m) == [self EXCEPT !.other_fields = m]

\* a variant that keeps the value a key already has (entry().or_insert)
SetOtherFieldKeepFirst(self, k, v) ==
    IF k \in DOMAIN self.other_fields THEN self
    ELSE [self EXCEPT !.other_fields = MapInsert(self.other_fields, k, v)]

SetOtherField(self, k, v) ==
    [self EXCEPT !.other_fields = MapInsert(self.other_fields, k, v)]

\* ---- serde: #[derive(Serialize, Deserialize)] with rename and flatten
JInt(n) == [t |-> "int", v |-> n]
JStr(s) == [t |-> "str", v |-> s]

\* The members written for the flattened map, in the map's key order.
ExtMembers(m) ==
    LET ks == SelectSeq(KeyOrder, LAMBDA k : k \in DOMAIN m)
    IN  [i \in 1..Len(ks) |-> <<ks[i], JStr(m[ks[i]])>>]

\* a variant without #[serde(flatten)] output: the extension members are lost
SerializeNoFlatten(self) ==
    << <<"return-value", JInt(self.return_value)>>,
       <<"stderr", JStr(self.stderr)>>,
       <<"stdout", JStr(self.stdout)>> >>

\* Serialize: the fixed fields in declaration order, then the members of
\* other_fields at the same level.
Serialize(self) ==
    << <<"return-value", JInt(self.return_value)>>,
       <<"stderr", JStr(self.stderr)>>,
       <<"stdout", JStr(self.stdout)>> >> \o ExtMembers(self.other_fields)

\* serde_json::to_value: the members inserted one by one into a JSON object,
\* a later member replacing an earlier one of the same key; read back in key
\* order.
RECURSIVE ToObject(_)
ToObject(w) ==
    IF w = <<>> THEN EmptyMap
    ELSE LET n == Len(w)
         IN  MapInsert(ToObject(SubSeq(w, 1, n - 1)), w[n][1], w[n][2])

ObjectMembers(o) ==
    LET ks == SelectSeq(KeyOrder, LAMBDA k : k \in DOMAIN o)
    IN  [i \in 1..Len(ks) |-> <<ks[i], o[ks[i]]>>]

ToValue(self) == ObjectMembers(ToObject(Serialize(self)))

\* The derived visit_map: a member named like a fixed field fills that field
\* (twice is an error, a value of the wrong type is an error), every other
\* member is collected for the flattened map.
RECURSIVE VisitMap(_, _)
VisitMap(w, acc) ==
    IF acc.err # "" \/ w = <<>> THEN acc
    ELSE LET k == w[1][1]
             v == w[1][2]
             rest == Tail(w)
         IN  IF k \in FixedNames
             THEN IF k \in DOMAIN acc.fixed
                  THEN [acc EXCEPT !.err = "duplicate field"]
                  ELSE IF v.t # (IF k = "return-value" THEN "int" ELSE "str")
                       THEN [acc EXCEPT !.err = "invalid type"]
                       ELSE VisitMap(rest,
                                [acc EXCEPT !.fixed = MapInsert(acc.fixed, k, v.v)])
             ELSE VisitMap(rest, [acc EXCEPT !.collect = Append(acc.collect, w[1])])

\* The collected members deserialized as BTreeMap<String, String>.
RECURSIVE CollectMap(_)
CollectMap(c) ==
    IF c = <<>> THEN Ok(EmptyMap)
    ELSE LET n == Len(c)
             m == CollectMap(SubSeq(c, 1, n - 1))
         IN  IF m.tag # "Ok" THEN m
             ELSE IF c[n][2].t # "str" THEN Err("invalid type")
             ELSE Ok(MapInsert(m.val, c[n][1], c[n][2].v))

Deserialize(w) ==
    LET acc == VisitMap(w, [fixed |-> EmptyMap, collect |-> <<>>, err |-> ""])
    IN  IF acc.err # "" THEN Err(acc.err)
        ELSE IF DOMAIN acc.fixed # FixedNames THEN Err("missing field")
        ELSE LET m == CollectMap(acc.collect)
             IN  IF m.tag # "Ok" THEN m
                 ELSE Ok([return_value |-> acc.fixed["return-value"],
                          stderr |-> acc.fixed["stderr"],
                          stdout |-> acc.fixed["stdout"],
                          other_fields |-> m.val])

\* ---- the builder calls and the serialization as actions
NoCall == [op |-> "new"]

BPIdle ==
    /\ bp = New
    /\ prev = New
    /\ last = NoCall
    /\ lastSet = [return_value |-> 0, stderr |-> "", stdout |-> ""]
    /\ bphase = "building"
    /\ wire = <<>>
    /\ decoded = NoResult

BPSetReturnValue ==
    /\ bphase = "building"
    /\ \E v \in RetVals :
        /\ bp' = SetReturnValue(bp, v)
        /\ last' = [op |-> "set_return_value", v |-> v]
        /\ lastSet' = [lastSet EXCEPT !.return_value = v]
    /\ prev' = bp
    /\ UNCHANGED <<bphase, wire, decoded>>

BPSetStderr ==
    /\ bphase = "building"
    /\ \E s \in StrVals :
        /\ bp' = SetStderr(bp, s)
        /\ last' = [op |-> "set_stderr", s |-> s]
        /\ lastSet' = [lastSet EXCEPT !.stderr = s]
    /\ prev' = bp
    /\ UNCHANGED <<bphase, wire, decoded>>

BPSetStdout ==
    /\ bphase = "building"
    /\ \E s \in StrVals :
        /\ bp' = SetStdout(bp, s)
        /\ last' = [op |-> "set_stdout", s |-> s]
        /\ lastSet' = [lastSet EXCEPT !.stdout = s]
    /\ prev' = bp
    /\ UNCHANGED <<bphase, wire, decoded>>

BPSetOtherFields ==
    /\ bphase = "building"
    /\ \E m \in ExtMaps :
        /\ bp' = SetOtherFields(bp, m)
        /\ last' = [op |-> "set_other_fields", m |-> m]
    /\ prev' = bp
    /\ UNCHANGED <<lastSet, bphase, wire, decoded>>

BPSetOtherField ==
    /\ bphase = "building"
    /\ \E k \in ExtKeys, v \in ExtVals :
        /\ bp' = SetOtherField(bp, k, v)
        /\ last' = [op |-> "set_other_field", k |-> k, v |-> v]
    /\ prev' = bp
    /\ UNCHANGED <<lastSet, bphase, wire, decoded>>

\* serde_json::to_string / to_value consume the value: no setter follows.
BPSerialize ==
    /\ bphase = "building"
    /\ \E form \in {"text", "value"} :
        /\ wire' = IF form = "text" THEN Serialize(bp) ELSE ToValue(bp)
        /\ last' = [op |-> "serialize", form |-> form]
    /\ prev' = bp
    /\ bphase' = "serialized"
    /\ UNCHANGED <<bp, lastSet, decoded>>

BPDeserialize ==
    /\ bphase = "serialized"
    /\ decoded' = Deserialize(wire)
    /\ bphase' = "deserialized"
    /\ UNCHANGED <<bp, prev, last, lastSet, wire>>

(***************************************************************************)
(*                 The file system seen by record_artifacts                *)
(***************************************************************************)
\* Paths are sequences of characters.  "xFF" stands for one byte that is not
\* valid UTF-8 (a file name on Unix is any byte string).
\*
\*   top/                      the parent of the working directory ("..")
\*     w/                      the working directory (".")
\*       a./                   a directory whose name ends in a dot
\*         b                   regular file
\*         <xFF>               regular file, present only under fault "nonutf8"
\*       ab                    regular file
\*       l -> ab               symbolic link to a regular file
Nodes == {"top", "w", "adot", "b", "ab", "lnk", "bad"}
Dirs  == {"top", "w", "adot"}
Files == {"b", "ab", "bad"}
Cwd   == "w"

Parent ==
    [n \in Nodes \ {"top"} |->
        CASE n = "w" -> "top"
          [] n \in {"adot", "ab", "lnk"} -> "w"
          [] n \in {"b", "bad"} -> "adot"]

NodeName ==
    [n \in Nodes \ {"top"} |->
        CASE n = "w" -> <<"w">>
          [] n = "adot" -> <<"a", ".">>
          [] n = "b" -> <<"b">>
          [] n = "ab" -> <<"a", "b">>
          [] n = "lnk" -> <<"l">>
          [] n = "bad" -> <<"xFF">>]

\* what goes wrong in this run of the program
FaultSet == {"none", "stat", "open", "read", "perm", "nonutf8", "dangling"}

Exists(n) == n \in Nodes /\ (n = "bad" => fault = "nonutf8")

\* lstat: the type of the entry itself
Kind(n) == IF n \in Dirs THEN "dir" ELSE IF n = "lnk" THEN "symlink" ELSE "file"

\* stat: the entry a path leads to once symbolic links are followed
Target(n) ==
    IF n = "lnk" THEN (IF fault = "dangling" THEN "missing" ELSE "ab") ELSE n

Children(d) == {n \in Nodes \ {"top"} : Exists(n) /\ Parent[n] = d}

\* std::fs::metadata fails: a dangling link, or a file removed after it was listed
StatFails(n) == Target(n) = "missing" \/ (fault = "stat" /\ n = "b")
\* File::open fails (permission denied)
OpenFails(t) == fault = "open" /\ t = "ab"
\* reading the file fails while it is hashed
ReadFails(t) == fault = "read" /\ t = "b"
\* read_dir fails on the directory (permission denied)
ListFails(d) == fault = "perm" /\ d = "adot"

\* ---- path strings
RECURSIVE Split(_, _)
Split(s, cur) ==
    IF s = <<>> THEN <<cur>>
    ELSE IF Head(s) = "/" THEN <<cur>> \o Split(Tail(s), <<>>)
    ELSE Split(Tail(s), Append(cur, Head(s)))

\* The entry a path names, resolved from the working directory.
RECURSIVE Lookup(_, _)
Lookup(n, comps) ==
    IF comps = <<>> \/ n = "missing" THEN n
    ELSE LET c == Head(comps)
             d == Target(n)
         IN  IF c = <<>> \/ c = <<".">> THEN Lookup(n, Tail(comps))
             ELSE IF d \notin Dirs THEN "missing"
             ELSE IF c = <<".", ".">>
                  THEN Lookup(IF d = "top" THEN "top" ELSE Parent[d], Tail(comps))
             ELSE LET hit == {k \in Children(d) : NodeName[k] = c}
                  IN  IF hit = {} THEN "missing"
                      ELSE Lookup(CHOOSE k \in hit : TRUE, Tail(comps))

Resolve(p) == IF p = <<>> THEN "missing" ELSE Lookup(Cwd, Split(p, <<>>))

\* PathBuf::join
Join(p, nm) ==
    IF p # <<>> /\ p[Len(p)] = "/" THEN p \o nm ELSE p \o <<"/">> \o nm

\* Path::to_str is Some only for valid UTF-8
IsUtf8Path(p) == \A i \in 1..Len(p) : p[i] # "xFF"

\* the roots a caller passes
RootSet ==
    { <<".">>,
      <<"a", ".">>,
      <<".", "/", "a", ".">>,
      <<"a", "b">>,
      <<"n">>,
      <<".", ".", "/", "/", "w", "/", "a", "b">> }

RootSeqs == UNION {[1..k -> RootSet] : k \in 0..MaxRoots}

(***************************************************************************)
(*                    record_artifacts  (runlib.rs 20-58)                  *)
(***************************************************************************)
\* crypto::calculate_hashes with [Sha256]: one digest per algorithm, equal
\* for equal contents and different for different contents.
CalculateHashes(c) == [sha256 |-> <<"sha256-of", c>>]

\* VirtualTargetPath::new: rejects an empty path and one that begins "./".
VirtualTargetPathNew(p) ==
    IF p = <<>> THEN Err("validation: empty path")
    ELSE IF Len(p) >= 2 /\ p[1] = "." /\ p[2] = "/"
         THEN Err("validation: path not normalized")
    ELSE Ok(p)

\* str::replace("./", ""): every non-overlapping occurrence, left to right.
RECURSIVE ReplaceDotSlash(_)
ReplaceDotSlash(s) ==
    IF s = <<>> THEN <<>>
    ELSE IF Len(s) >= 2 /\ s[1] = "." /\ s[2] = "/"
         THEN ReplaceDotSlash(SubSeq(s, 3, Len(s)))
    ELSE <<s[1]>> \o ReplaceDotSlash(Tail(s))

\* line 52, after to_str().unwrap().to_string()
NormalizePath(p) == ReplaceDotSlash(p)

\* a variant that keeps the entry a key already has (entry().or_insert)
InsertKeepFirst(arts, key, hashes) ==
    IF key \in DOMAIN arts THEN arts ELSE MapInsert(arts, key, hashes)

\* line 53: artifacts.insert(key, hashes)
InsertArtifact(arts, key, hashes) == MapInsert(arts, key, hashes)

WalkErrItem == [werr |-> TRUE, node |-> "missing", path |-> <<>>]
Entry(n, p) == [werr |-> FALSE, node |-> n, path |-> p]

\* What WalkDir yields next for the current root: the root itself first (an
\* error if it does not exist), then the entries of the innermost listing
\* not yet exhausted, in whatever order the directory returns them.
NextItems ==
    IF ~rootOpen
    THEN LET r == recRoots[rootIdx]
         IN  IF Resolve(r) = "missing" THEN {WalkErrItem} ELSE {Entry(Resolve(r), r)}
    ELSE IF stack = <<>> THEN {}
    ELSE stack[Len(stack)]

\* The listing WalkDir opens after yielding a directory (it does not descend
\* into symbolic links); a directory it cannot read yields one error.
Listing(e) ==
    IF ListFails(e.node) THEN {WalkErrItem}
    ELSE {Entry(k, Join(e.path, NodeName[k])) : k \in Children(e.node)}

RECURSIVE PopEmpty(_)
PopEmpty(st) ==
    IF st # <<>> /\ st[Len(st)] = {} THEN PopEmpty(SubSeq(st, 1, Len(st) - 1)) ELSE st

\* WalkDir's state after yielding item e
Advance(e) ==
    LET st == IF rootOpen
              THEN [stack EXCEPT ![Len(stack)] = stack[Len(stack)] \ {e}]
              ELSE <<>>
        st2 == IF ~e.werr /\ Kind(e.node) = "dir" THEN Append(st, Listing(e)) ELSE st
    IN  PopEmpty(st2)

Continue(arts, ins) == [ret |-> NoResult, arts |-> arts, ins |-> ins]
Return(r, arts)     == [ret |-> r, arts |-> arts, ins |-> <<>>]

\* One iteration of the inner loop, lines 29-55, on item e.
LoopBody(e, arts) ==
    IF e.werr THEN Return(Err("Walkdir Error"), arts)
    ELSE IF StatFails(e.node) THEN Return(Err("io: metadata"), arts)
    ELSE LET t == Target(e.node)
         IN  IF Kind(t) # "file" THEN Continue(arts, <<>>)
             ELSE IF OpenFails(t) THEN Return(Err("io: open"), arts)
             ELSE IF ReadFails(t) THEN Return(Err("io: read"), arts)
             ELSE IF ~IsUtf8Path(e.path) THEN Return(Panic, arts)
             ELSE LET key == NormalizePath(e.path)
                      vtp == VirtualTargetPathNew(key)
                      h == CalculateHashes(content[t])
                  IN  IF vtp.tag # "Ok" THEN Return(vtp, arts)
                      ELSE Continue(InsertArtifact(arts, key, h),
                                    <<[file |-> t, path |-> e.path, key |-> key,
                                       hashes |-> h]>>)

RecIdle ==
    /\ rphase = "idle"
    /\ recRoots = <<>>
    /\ rootIdx = 1
    /\ rootOpen = FALSE
    /\ stack = <<>>
    /\ artifacts = EmptyMap
    /\ recResult = NoResult
    /\ log = <<>>

\* entering record_artifacts(paths): line 25
RecBegin(paths) ==
    /\ rphase' = "walking"
    /\ recRoots' = paths
    /\ rootIdx' = 1
    /\ rootOpen' = FALSE
    /\ stack' = <<>>
    /\ artifacts' = EmptyMap
    /\ recResult' = NoResult
    /\ log' = <<>>

\* one iteration of `for entry in WalkDir::new(path)`
RecStep ==
    /\ rphase = "walking"
    /\ rootIdx <= Len(recRoots)
    /\ \E e \in NextItems :
        LET out == LoopBody(e, artifacts)
        IN  /\ artifacts' = out.arts
            /\ log' = log \o [i \in 1..Len(out.ins) |->
                                [root |-> rootIdx] @@ out.ins[i]]
            /\ IF out.ret.tag = "None"
               THEN /\ rootOpen' = TRUE
                    /\ stack' = Advance(e)
                    /\ UNCHANGED <<rphase, recResult>>
               ELSE /\ rphase' = "returned"
                    /\ recResult' = out.ret
                    /\ UNCHANGED <<rootOpen, stack>>
    /\ UNCHANGED <<recRoots, rootIdx>>

\* the walk of the current root is exhausted: the outer loop takes the next
RecNextRoot ==
    /\ rphase = "walking"
    /\ rootIdx <= Len(recRoots)
    /\ rootOpen /\ stack = <<>>
    /\ rootIdx' = rootIdx + 1
    /\ rootOpen' = FALSE
    /\ UNCHANGED <<rphase, recRoots, stack, artifacts, recResult, log>>

\* line 57: Ok(artifacts)
RecReturn ==
    /\ rphase = "walking"
    /\ rootIdx > Len(recRoots)
    /\ rphase' = "returned"
    /\ recResult' = Ok(artifacts)
    /\ UNCHANGED <<recRoots, rootIdx, rootOpen, stack, artifacts, log>>

InitialContent == [f \in Files |-> CASE f = "b" -> 1 [] f = "ab" -> 2 [] f = "bad" -> 3]

(***************************************************************************)
(*                      run_command  (runlib.rs 64-106)                    *)
(***************************************************************************)
\* Captured output is a sequence of bytes; a String is its UTF-8 bytes.
Hello == <<104, 101, 108, 108, 111>>
StdoutBytes == {<<>>, Hello, <<255>>}
StderrBytes == {<<>>, <<195, 169>>, <<195>>}

ExitCodes == ((0 - MaxRet)..MaxRet) \cup {127, 255}
\* ExitStatus::code(): Some(code), or None when a signal ended the child
Signalled == [signal |-> TRUE, code |-> 0]
Exited(c) == [signal |-> FALSE, code |-> c]
Statuses == {Signalled} \cup {Exited(c) : c \in ExitCodes}

IsCont(b) == b \in 128..191

\* String::from_utf8 accepts exactly the well-formed UTF-8 byte sequences.
RECURSIVE Utf8Valid(_)
Utf8Valid(bs) ==
    IF bs = <<>> THEN TRUE
    ELSE LET b == bs[1]
             n == Len(bs)
         IN  IF b < 128 THEN Utf8Valid(Tail(bs))
             ELSE IF b \in 194..223
                  THEN n >= 2 /\ IsCont(bs[2]) /\ Utf8Valid(SubSeq(bs, 3, n))
             ELSE IF b \in 224..239
                  THEN /\ n >= 3
                       /\ bs[2] \in (IF b = 224 THEN 160..191
                                     ELSE IF b = 237 THEN 128..159 ELSE 128..191)
                       /\ IsCont(bs[3])
                       /\ Utf8Valid(SubSeq(bs, 4, n))
             ELSE IF b \in 240..244
                  THEN /\ n >= 4
                       /\ bs[2] \in (IF b = 240 THEN 144..191
                                     ELSE IF b = 244 THEN 128..143 ELSE 128..191)
                       /\ IsCont(bs[3]) /\ IsCont(bs[4])
                       /\ Utf8Valid(SubSeq(bs, 5, n))
             ELSE FALSE

\* i32::to_string: decimal digits, a leading '-' for a negative number
RECURSIVE Digits(_)
Digits(n) == IF n < 10 THEN <<48 + n>> ELSE Append(Digits(n \div 10), 48 + (n % 10))

I32ToString(n) == IF n < 0 THEN <<45>> \o Digits(0 - n) ELSE Digits(n)

\* "Process terminated by signal"
SignalText ==
    <<80, 114, 111, 99, 101, 115, 115, 32, 116, 101, 114, 109, 105, 110, 97, 116,
      101, 100, 32, 98, 121, 32, 115, 105, 103, 110, 97, 108>>

\* a variant that records -1 for a signal (code().unwrap_or(-1))
StatusTextMinusOne(st) == IF st.signal THEN I32ToString(0 - 1) ELSE I32ToString(st.code)

\* lines 96-99
StatusText(st) == IF st.signal THEN SignalText ELSE I32ToString(st.code)

\* the command lines a caller passes
Argvs ==
    { <<>>,
      <<"sh", "-c", "printf hello">>,
      <<"command-does-not-exist", "true">>,
      <<"prog">> }

\* What the operating system and the child can do for a command line:
\*   spawned   whether Command::output started the child and collected it
\*   out, err  the bytes the child wrote
\*   status    how the child ended
\*   echo      which write_all to the parent's own streams fails, if any
\*   wrote     whether the child rewrote the file "ab"
NotSpawned ==
    [spawned |-> FALSE, out |-> <<>>, err |-> <<>>, status |-> Exited(0),
     echo |-> "ok", wrote |-> FALSE]

Behaviours(argv) ==
    IF argv = <<>> THEN {NotSpawned}
    ELSE IF argv[1] = "command-does-not-exist" THEN {NotSpawned}
    ELSE IF argv[1] = "sh"
         THEN {[spawned |-> TRUE, out |-> Hello, err |-> <<>>, status |-> Exited(0),
                echo |-> e, wrote |-> FALSE] : e \in {"ok", "stdout fails", "stderr fails"}}
    ELSE [spawned : {TRUE}, out : StdoutBytes, err : StderrBytes, status : Statuses,
          echo : {"ok"}, wrote : BOOLEAN]

ByproductsMap(out, err, st) ==
    [k \in {"stdout", "stderr", "return-value"} |->
        CASE k = "stdout" -> out
          [] k = "stderr" -> err
          [] k = "return-value" -> st]

\* a variant that drops output it cannot decode instead of failing
RunCommandLossy(argv, r) ==
    IF argv = <<>> THEN Panic
    ELSE IF ~r.spawned THEN Err("io: spawn")
    ELSE IF r.echo # "ok" THEN Err("io: write")
    ELSE Ok(ByproductsMap(IF Utf8Valid(r.out) THEN r.out ELSE <<>>,
                          IF Utf8Valid(r.err) THEN r.err ELSE <<>>,
                          StatusText(r.status)))

\* run_command(cmd_args) when the system answers r
RunCommand(argv, r) ==
    IF argv = <<>> THEN Panic
    ELSE IF ~r.spawned THEN Err("io: spawn")
    ELSE IF r.echo # "ok" THEN Err("io: write")
    ELSE IF ~Utf8Valid(r.out) THEN Err("Utf8Error")
    ELSE IF ~Utf8Valid(r.err) THEN Err("Utf8Error")
    ELSE Ok(ByproductsMap(r.out, r.err, StatusText(r.status)))

(***************************************************************************)
(*                      in_toto_run  (runlib.rs 110-148)                   *)
(***************************************************************************)
Names == {"", "step"}

\* in_toto_run passes one root list per stage
RunRootSeqs == {<<>>} \cup {<<r>> : r \in RootSet}

StageOrder == <<"materials", "command", "products", "assemble">>

\* a variant that goes on with a default value (unwrap_or_default)
TryIgnore(r) == [abort |-> FALSE, val |-> IF r.tag = "Ok" THEN r.val ELSE EmptyMap]

\* The `?` operator: anything but Ok leaves the function with that value.
Try(r) == [abort |-> r.tag # "Ok", val |-> IF r.tag = "Ok" THEN r.val ELSE EmptyMap]

\* LinkMetadataBuilder::build and Link::from: the record is assembled from
\* the collected values; an empty step name is a validation error.
BuildLink(nm, mat, byp, prod) ==
    IF nm = "" THEN Err("validation: empty name")
    ELSE Ok([name |-> nm, materials |-> mat, byproducts |-> byp, products |-> prod])

RunOff ==
    /\ pc = "off"
    /\ name = ""
    /\ materials = NoResult
    /\ cmd = [executed |-> FALSE]
    /\ byproducts = NoResult
    /\ products = NoResult
    /\ stages = <<>>
    /\ result = NoResult

\* a caller (the test at lines 155-158) calls record_artifacts directly
RecCall ==
    /\ rphase = "idle"
    /\ pc = "off"
    /\ \E paths \in RootSeqs : RecBegin(paths)

InitRec ==
    /\ BPIdle
    /\ fault \in FaultSet
    /\ content = InitialContent
    /\ RecIdle
    /\ RunOff

NextRec ==
    \/ RecCall /\ UNCHANGED <<bpVars, fsVars, runVars>>
    \/ RecStep /\ UNCHANGED <<bpVars, fsVars, runVars>>
    \/ RecNextRoot /\ UNCHANGED <<bpVars, fsVars, runVars>>
    \/ RecReturn /\ UNCHANGED <<bpVars, fsVars, runVars>>

SpecRec == InitRec /\ [][NextRec]_vars

InitBP ==
    /\ BPIdle
    /\ fault = "none"
    /\ content = InitialContent
    /\ RecIdle
    /\ RunOff

NextBP ==
    \/ BPSetReturnValue /\ UNCHANGED <<fsVars, recVars, runVars>>
    \/ BPSetStderr /\ UNCHANGED <<fsVars, recVars, runVars>>
    \/ BPSetStdout /\ UNCHANGED <<fsVars, recVars, runVars>>
    \/ BPSetOtherFields /\ UNCHANGED <<fsVars, recVars, runVars>>
    \/ BPSetOtherField /\ UNCHANGED <<fsVars, recVars, runVars>>
    \/ BPSerialize /\ UNCHANGED <<fsVars, recVars, runVars>>
    \/ BPDeserialize /\ UNCHANGED <<fsVars, recVars, runVars>>

SpecBP == InitBP /\ [][NextBP]_vars

\* in_toto_run is called: line 121 starts recording the materials
RunBegin ==
    /\ pc = "start"
    /\ \E nm \in Names, paths \in RunRootSeqs :
        /\ name' = nm
        /\ RecBegin(paths)
    /\ pc' = "materials"
    /\ stages' = <<"materials">>
    /\ UNCHANGED <<materials, cmd, byproducts, products, result>>

\* line 121: record_artifacts(material_paths)? has returned
RunMaterialsReturn ==
    /\ pc = "materials"
    /\ rphase = "returned"
    /\ materials' = recResult
    /\ IF Try(recResult).abort
       THEN pc' = "done" /\ result' = recResult
       ELSE pc' = "command" /\ UNCHANGED result
    /\ rphase' = "idle"
    /\ UNCHANGED <<recRoots, rootIdx, rootOpen, stack, artifacts, recResult, log>>
    /\ UNCHANGED <<name, cmd, byproducts, products, stages>>

\* line 124: run_command(cmd_args) runs; the child may rewrite a file
RunCommandExec ==
    /\ pc = "command"
    /\ byproducts = NoResult
    /\ \E argv \in Argvs : \E r \in Behaviours(argv) :
        /\ cmd' = [executed |-> argv # <<>>, argv |-> argv, sys |-> r]
        /\ byproducts' = RunCommand(argv, r)
        /\ content' = IF r.wrote THEN [content EXCEPT !["ab"] = 4] ELSE content
    /\ stages' = Append(stages, "command")
    /\ UNCHANGED <<pc, name, materials, products, result>>

\* line 124: its `?`, and line 127 starts recording the products
RunCommandReturn ==
    /\ pc = "command"
    /\ byproducts # NoResult
    /\ IF Try(byproducts).abort
       THEN /\ pc' = "done"
            /\ result' = byproducts
            /\ UNCHANGED <<recVars, stages, cmd>>
       ELSE /\ pc' = "products"
            /\ \E paths \in RunRootSeqs : RecBegin(paths)
            /\ stages' = Append(stages, "products")
            /\ cmd' = [executed |-> cmd.executed]
            /\ UNCHANGED result
    /\ UNCHANGED <<name, materials, byproducts, products>>

\* line 127: record_artifacts(product_paths)? has returned
RunProductsReturn ==
    /\ pc = "products"
    /\ rphase = "returned"
    /\ products' = recResult
    /\ IF Try(recResult).abort
       THEN pc' = "done" /\ result' = recResult
       ELSE pc' = "assemble" /\ UNCHANGED result
    /\ rphase' = "idle"
    /\ UNCHANGED <<recRoots, rootIdx, rootOpen, stack, artifacts, recResult, log>>
    /\ UNCHANGED <<name, materials, cmd, byproducts, stages>>

\* lines 130-147: the link is built and returned
RunAssemble ==
    /\ pc = "assemble"
    /\ stages' = Append(stages, "assemble")
    /\ result' = BuildLink(name, Try(materials).val, Try(byproducts).val,
                           Try(products).val)
    /\ pc' = "done"
    /\ UNCHANGED <<name, materials, cmd, byproducts, products>>

Init ==
    /\ BPIdle
    /\ fault \in FaultSet
    /\ content = InitialContent
    /\ RecIdle
    /\ pc = "start"
    /\ name = ""
    /\ materials = NoResult
    /\ cmd = [executed |-> FALSE]
    /\ byproducts = NoResult
    /\ products = NoResult
    /\ stages = <<>>
    /\ result = NoResult

Next ==
    \/ RunBegin /\ UNCHANGED <<bpVars, fsVars>>
    \/ RecStep /\ pc \in {"materials", "products"} /\ UNCHANGED <<bpVars, fsVars, runVars>>
    \/ RecNextRoot /\ pc \in {"materials", "products"}
                   /\ UNCHANGED <<bpVars, fsVars, runVars>>
    \/ RecReturn /\ pc \in {"materials", "products"}
                 /\ UNCHANGED <<bpVars, fsVars, runVars>>
    \/ RunMaterialsReturn /\ UNCHANGED <<bpVars, fsVars>>
    \/ RunCommandExec /\ UNCHANGED <<bpVars, fault, recVars>>
    \/ RunCommandReturn /\ UNCHANGED <<bpVars, fsVars>>
    \/ RunProductsReturn /\ UNCHANGED <<bpVars, fsVars>>
    \/ RunAssemble /\ UNCHANGED <<bpVars, fsVars, recVars>>

Spec == Init /\ [][Next]_vars

(***************************************************************************)
(*                              Properties                                 *)
(***************************************************************************)
\* ---- what the file system holds, independently of any walk
\* the entries WalkDir reaches from node n: n and, below a directory, its tree
RECURSIVE Subtree(_)
Subtree(n) ==
    IF Kind(n) = "dir" THEN {n} \cup UNION {Subtree(k) : k \in Children(n)} ELSE {n}

\* the path under which the walk of root r (resolving to node top) reports n
RECURSIVE WalkPathOf(_, _, _)
WalkPathOf(r, top, n) ==
    IF n = top THEN r ELSE Join(WalkPathOf(r, top, Parent[n]), NodeName[n])

RegularFilesUnder(r) == {n \in Subtree(Resolve(r)) : Kind(n) = "file"}

BeginsDotSlash(p) == Len(p) >= 2 /\ p[1] = "." /\ p[2] = "/"

\* the path with one leading "./" stripped and nothing else changed
StripPrefix(p) == IF BeginsDotSlash(p) THEN SubSeq(p, 3, Len(p)) ELSE p

\* entry n, reported under path p, cannot be recorded
EntryFails(n, p) ==
    \/ StatFails(n)
    \/ Kind(n) = "dir" /\ ListFails(n)
    \/ /\ Target(n) \in Files
       /\ \/ OpenFails(Target(n))
          \/ ReadFails(Target(n))
          \/ ~IsUtf8Path(p)
          \/ VirtualTargetPathNew(NormalizePath(p)).tag = "Err"

RootFails(r) ==
    \/ Resolve(r) = "missing"
    \/ \E n \in Subtree(Resolve(r)) : EntryFails(n, WalkPathOf(r, Resolve(r), n))

\* the roots the returned call got to
RootsWalked ==
    {recRoots[i] : i \in 1..(IF rootIdx > Len(recRoots) THEN Len(recRoots) ELSE rootIdx)}

\* C2 (as claimed): record_artifacts is all-or-nothing.  Whenever an entry of
\* a walked root reports a walk error or cannot be stat'ed, opened, hashed or
\* turned into a valid VirtualTargetPath, the call returns an error (never a
\* panic, never an inventory), and a root that does not exist never gives Ok.
C2_AllOrNothing ==
    rphase = "returned" =>
        /\ recResult.tag \in {"Ok", "Err"}
        /\ (recResult.tag = "Ok" => \A r \in RootsWalked : ~RootFails(r))
        /\ ((\E r \in RootsWalked : RootFails(r)) => recResult.tag = "Err")

\* C3 (as claimed): a successful call on one root returns exactly one entry
\* per regular file of the subtree and none for anything else, each keyed by
\* the file's normalized path and holding the digest of its content; no two
\* regular files share an entry.
C3_OneEntryPerRegularFile ==
    (rphase = "returned" /\ recResult.tag = "Ok" /\ Len(recRoots) = 1) =>
        LET r == recRoots[1]
            fs == RegularFilesUnder(r)
            keyOf(f) == NormalizePath(WalkPathOf(r, Resolve(r), f))
        IN  /\ DOMAIN recResult.val = {keyOf(f) : f \in fs}
            /\ Cardinality(DOMAIN recResult.val) = Cardinality(fs)
            /\ \A f \in fs : recResult.val[keyOf(f)] = CalculateHashes(content[f])

\* C4 (as claimed): every inserted key is the traversed path with only a
\* leading "./" stripped and the rest unchanged, is never empty and never
\* begins with "./".
C4_KeyIsPathWithoutPrefix ==
    \A i \in 1..Len(log) :
        /\ log[i].key = StripPrefix(log[i].path)
        /\ log[i].key # <<>>
        /\ ~BeginsDotSlash(log[i].key)

\* the position in log of the last insert under key k
LastInsert(k) ==
    CHOOSE j \in 1..Len(log) :
        /\ log[j].key = k
        /\ \A x \in 1..Len(log) : log[x].key = k => x <= j

\* every walked root exists and nothing under it fails
CleanCall == \A i \in 1..Len(recRoots) : ~RootFails(recRoots[i])

\* C9: when files of different roots normalize to the same path the call
\* does not fail for it and keeps one entry for the path, holding the digest
\* of the file inserted last, which comes from the latest of those roots.
C9_LastInsertedWins ==
    rphase = "returned" =>
        /\ CleanCall => recResult.tag = "Ok"
        /\ recResult.tag = "Ok" =>
            \A i \in 1..Len(log) :
                LET k == log[i].key
                    j == LastInsert(k)
                IN  /\ k \in DOMAIN recResult.val
                    /\ recResult.val[k] = log[j].hashes
                    /\ log[i].root <= log[j].root

\* C9 witness: a successful call in which two different files from two
\* different roots were inserted under one key.
C9_Witness ==
    /\ rphase = "returned"
    /\ recResult.tag = "Ok"
    /\ \E i, j \in 1..Len(log) :
        /\ log[i].root < log[j].root
        /\ log[i].key = log[j].key
        /\ log[i].hashes # log[j].hashes

\* ---- in_toto_run
StageOutcome(s) ==
    CASE s = "materials" -> materials
      [] s = "command" -> byproducts
      [] s = "products" -> products
      [] s = "assemble" -> result

\* C1: the stages start in the order materials, command, products, assemble;
\* a stage starts only after every earlier stage returned Ok (the command is
\* never executed after a failed materials stage, products are never recorded
\* after a failed command); the call ends with the outcome of the first stage
\* that failed, unchanged, and returns a Link only when all four succeeded.
C1_StrictOrderFirstFailureAborts ==
    /\ Len(stages) <= Len(StageOrder)
    /\ \A i \in 1..Len(stages) : stages[i] = StageOrder[i]
    /\ \A i \in 1..Len(stages) : \A j \in 1..(i - 1) : StageOutcome(stages[j]).tag = "Ok"
    /\ cmd.executed => materials.tag = "Ok"
    /\ result # NoResult => pc = "done"
    /\ pc = "done" =>
        /\ result = StageOutcome(stages[Len(stages)])
        /\ result.tag = "Ok" => stages = StageOrder
        /\ \A s \in {"materials", "command", "products"} :
            StageOutcome(s).tag \in {"Err", "Panic"} =>
                /\ result = StageOutcome(s)
                /\ stages[Len(stages)] = s

\* C1 witness: the command ran and its output did not decode; the call ended
\* with that error and the products were never recorded.
C1_Witness ==
    /\ pc = "done"
    /\ stages = <<"materials", "command">>
    /\ cmd.executed
    /\ byproducts = Err("Utf8Error")
    /\ result = byproducts
    /\ products = NoResult

\* ---- run_command
\* the number a decimal numeral denotes
RECURSIVE DecimalValue(_)
DecimalValue(bs) ==
    IF bs = <<>> THEN 0
    ELSE 10 * DecimalValue(SubSeq(bs, 1, Len(bs) - 1)) + (bs[Len(bs)] - 48)

IsNumeral(bs) ==
    LET ds == IF bs # <<>> /\ bs[1] = 45 THEN Tail(bs) ELSE bs
    IN  ds # <<>> /\ \A i \in 1..Len(ds) : ds[i] \in 48..57

NumeralValue(bs) == IF bs[1] = 45 THEN 0 - DecimalValue(Tail(bs)) ELSE DecimalValue(bs)

\* run_command has just returned inside in_toto_run
CommandReturned == pc = "command" /\ byproducts # NoResult

C6_ErrorOrByproducts ==
    CommandReturned =>
        /\ (/\ cmd.argv # <<>>
            /\ \/ ~cmd.sys.spawned
               \/ ~Utf8Valid(cmd.sys.out)
               \/ ~Utf8Valid(cmd.sys.err))
           => byproducts.tag = "Err"
        /\ byproducts.tag = "Ok" =>
            /\ cmd.sys.spawned
            /\ cmd.sys.out \notin {<<255>>, <<195>>}
            /\ cmd.sys.err \notin {<<255>>, <<195>>}
            /\ DOMAIN byproducts.val = {"stdout", "stderr", "return-value"}

\* C6 witness: the child ran and wrote valid stdout but a truncated UTF-8
\* sequence on stderr, and run_command returned an error.
C6_Witness ==
    /\ CommandReturned
    /\ cmd.sys.spawned
    /\ cmd.sys.out = Hello
    /\ cmd.sys.err = <<195>>
    /\ byproducts.tag = "Err"

\* ---- ByProducts
FixedOf(b) == <<b.return_value, b.stderr, b.stdout>>

\* C7: whatever was set before, set_other_fields(m) leaves other_fields
\* exactly m (every earlier key not in m is gone) and leaves return_value,
\* stderr and stdout as they were.
C7_BulkReplaceDiscards ==
    last.op = "set_other_fields" =>
        /\ bp.other_fields = last.m
        /\ \A k \in DOMAIN prev.other_fields \ DOMAIN last.m : k \notin DOMAIN bp.other_fields
        /\ FixedOf(bp) = FixedOf(prev)

\* C7 witness: a bulk replace over a non-empty extension set that shares no
\* key with the new one, after the fixed fields were set.
C7_Witness ==
    /\ last.op = "set_other_fields"
    /\ DOMAIN prev.other_fields = {"key1"}
    /\ DOMAIN last.m = {"key2"}
    /\ prev.stdout = "hello"
    /\ prev.return_value = 1

\* the extension set m built on b by one set_other_field call per key
RECURSIVE InsertAll(_, _, _)
InsertAll(b, m, ks) ==
    IF ks = <<>> THEN b
    ELSE InsertAll(SetOtherField(b, Head(ks), m[Head(ks)]), m, Tail(ks))

BuiltByInserts(b, m) ==
    InsertAll(SetOtherFields(b, EmptyMap), m,
              SelectSeq(KeyOrder, LAMBDA k : k \in DOMAIN m))

SameFormEitherWay ==
    \A m \in {bp.other_fields, prev.other_fields} :
        Serialize(BuiltByInserts(bp, m)) = Serialize(SetOtherFields(bp, m))

\* C8 (as claimed): serializing and deserializing gives back the value, for
\* any fixed and extension fields.
C8_RoundTripAnyFields ==
    bphase = "deserialized" => decoded = Ok(bp)

\* C8 (amended): serializing and deserializing gives back the value whenever
\* no extension key is the serialized name of a fixed field (zero extension
\* fields included); the serialized object holds the fixed names and the
\* extension keys at one level; and an extension set built by
\* set_other_field calls serializes like the same set given to
\* set_other_fields.
C8_RoundTripDistinctKeys ==
    /\ (bphase = "deserialized" /\ DOMAIN bp.other_fields \cap FixedNames = {})
            => decoded = Ok(bp)
    /\ bphase = "serialized" =>
            {wire[i][1] : i \in 1..Len(wire)} = FixedNames \cup DOMAIN bp.other_fields
    /\ SameFormEitherWay

\* C8 witness: a value with two extension fields came back equal from the
\* text form.
C8_Witness ==
    /\ bphase = "deserialized"
    /\ last = [op |-> "serialize", form |-> "text"]
    /\ DOMAIN bp.other_fields = {"key1", "key2"}
    /\ bp.stderr = "hello"
    /\ decoded = Ok(bp)

\* C10: each fixed field holds the argument of the last call of its own
\* setter (0 or "" if there was none); a setter changes its own field only;
\* repeating a call changes nothing; set_other_field(k, v) adds or overwrites
\* key k only.
C10_SettersOverwriteOwnField ==
    /\ bp.return_value = lastSet.return_value
    /\ bp.stderr = lastSet.stderr
    /\ bp.stdout = lastSet.stdout
    /\ last.op = "set_return_value" =>
        /\ bp = [prev EXCEPT !.return_value = last.v]
        /\ SetReturnValue(bp, last.v) = bp
    /\ last.op = "set_stderr" =>
        /\ bp = [prev EXCEPT !.stderr = last.s]
        /\ SetStderr(bp, last.s) = bp
    /\ last.op = "set_stdout" =>
        /\ bp = [prev EXCEPT !.stdout = last.s]
        /\ SetStdout(bp, last.s) = bp
    /\ last.op = "set_other_field" =>
        /\ FixedOf(bp) = FixedOf(prev)
        /\ DOMAIN bp.other_fields = DOMAIN prev.other_fields \cup {last.k}
        /\ bp.other_fields[last.k] = last.v
        /\ \A k \in DOMAIN prev.other_fields \ {last.k} :
                bp.other_fields[k] = prev.other_fields[k]
        /\ SetOtherField(bp, last.k, last.v) = bp

\* C10 witness: set_other_field overwrote a key that held another value,
\* beside another key and after the fixed fields were set.
C10_Witness ==
    /\ last.op = "set_other_field"
    /\ last.k \in DOMAIN prev.other_fields
    /\ prev.other_fields[last.k] # last.v
    /\ Cardinality(DOMAIN prev.other_fields) >= 2
    /\ bp.stdout = "hello"
    /\ bp.return_value = 1

====
